---------------------------- MODULE Spec2Model ----------------------------
(***************************************************************************)
(* The shared contact-form coordinator of the call-intellect site.         *)
(*                                                                         *)
(* ContactFormProvider (contexts/ContactFormContext) holds two useState    *)
(* hooks, isOpen and formType, and hands openForm / closeForm to every     *)
(* consumer through a context.  It renders its children (header, routed    *)
(* page, footer) followed by one ContactForm, which receives isOpen,       *)
(* formType and onClose = closeForm as props.  App mounts the provider     *)
(* once, inside the Router and above the Routes element.                   *)
(*                                                                         *)
(* Every event handler runs to completion; the setter calls it makes are   *)
(* queued and applied together in the render that follows the handler,     *)
(* so one action of this module is one handler plus that render.           *)
(***************************************************************************)
EXTENDS Naturals, Sequences, FiniteSets

VARIABLES
  isOpen,      \* useState(false): the memoized value of the isOpen hook
  formType,    \* useState('general'): the memoized value of the formType hook
  props,       \* props ContactForm received in the last render
  mounted,     \* component instances of the last render, in tree order
  route,       \* path matched by the Router
  fieldsValid, \* ContactForm: the required fields of the form are filled in
  formError,   \* ContactForm: error indicator shown in the form
  inFlight,    \* ContactForm: submissions sent and not yet answered
  commits,     \* history: snapshots consumers could observe during the last event
  lastEvent,   \* history: the last event and the coordinator call it made
  lastCall,    \* history: the most recent coordinator call
  before       \* history: the hook state when the last event began

vars == <<isOpen, formType, props, mounted, route, fieldsValid, formError,
          inFlight, commits, lastEvent, lastCall, before>>

(***************************************************************************)
(* Values                                                                  *)
(***************************************************************************)

\* The closed set of intents the form knows.
Intents == {"general", "demo", "calculate"}

\* JavaScript undefined (an omitted argument) and null.
Undefined == "<undefined>"
Null == "<null>"

\* Arguments a consumer of the context can pass to openForm: the literals, an
\* omitted argument, null, and a string outside the closed set.
Args == Intents \cup {Undefined, Null, "unknown"}

\* Submissions that may be awaiting an answer at the same time.
MaxInFlight == 2

\* The paths of the Route elements.
Routes == {"/", "/sales", "/marketing", "/market-analysis", "/blog",
           "/contacts", "/admin", "/personal-data"}

\* The element each Route renders.
Page(r) ==
  CASE r = "/" -> "Home"
    [] r = "/sales" -> "Sales"
    [] r = "/marketing" -> "Marketing"
    [] r = "/market-analysis" -> "MarketAnalysis"
    [] r = "/blog" -> "Blog"
    [] r = "/contacts" -> "Contacts"
    [] r = "/admin" -> "AdminPanel"
    [] r = "/personal-data" -> "PersonalData"

\* The buttons of the Contacts page and the literal each passes to openForm.
ContactsButtons ==
  [submitRequest |-> "general", orderDemo |-> "demo",
   downloadPresentation |-> "general", calculateCost |-> "calculate"]

(***************************************************************************)
(* ContactFormProvider                                                     *)
(***************************************************************************)

\* The initial values given to the two useState calls.
InitialState == [isOpen |-> FALSE, formType |-> "general"]

\* Faulty variant: the value is a plain local, initialised again by every render.
useState_reinit(isMounted, memoized, initial) == initial

\* const [x, setX] = useState(initial): the initial value on mount, the
\* memoized value on every later render.
useState(isMounted, memoized, initial) ==
  IF isMounted THEN memoized ELSE initial

\* A setter call: the hook it belongs to and the value it is given.
setFormType(v) == [hook |-> "formType", value |-> v]
setIsOpen(v) == [hook |-> "isOpen", value |-> v]

\* Faulty variants of openForm: setFormType is not called; the argument is
\* ignored; the parameter has no default.
openForm_keepsType(arg) == << setIsOpen(TRUE) >>

openForm_ignoresArg(arg) == << setFormType("general"), setIsOpen(TRUE) >>

openForm_noDefault(arg) == << setFormType(arg), setIsOpen(TRUE) >>

\* openForm = (type = 'general') => { setFormType(type); setIsOpen(true) }
\* The default applies to an omitted (undefined) argument only.
openForm(arg) ==
  LET type == IF arg = Undefined THEN "general" ELSE arg
  IN  << setFormType(type), setIsOpen(TRUE) >>

\* Faulty variants of closeForm: it sets true; it does nothing; it also
\* resets formType.
closeForm_setsTrue == << setIsOpen(TRUE) >>

closeForm_nothing == << >>

closeForm_resetsType == << setFormType("general"), setIsOpen(FALSE) >>

\* closeForm = () => setIsOpen(false)
closeForm == << setIsOpen(FALSE) >>

\* The value of the context: the keys a consumer can read or call.
ContextValue == {"isOpen", "formType", "openForm", "closeForm"}

\* Faulty variant: the form is handed openForm as onClose.
onClose_openForm == openForm(Undefined)

\* <ContactForm onClose={closeForm} />: the one coordinator capability the
\* form is given.
onClose == closeForm

\* <ContactForm isOpen={isOpen} formType={formType} />
ContactFormProps(s) == [isOpen |-> s.isOpen, formType |-> s.formType]

\* The queued setter calls of one handler, applied in call order to the hook
\* state by the render that follows the handler.
RECURSIVE processUpdateQueue(_, _)
processUpdateQueue(s, q) ==
  IF q = << >> THEN s
  ELSE processUpdateQueue([s EXCEPT ![Head(q).hook] = Head(q).value], Tail(q))

\* The hooks a queue of setter calls writes.
hooksOf(q) == { q[i].hook : i \in 1..Len(q) }

\* The renders an event causes: its setter calls are batched, so consumers
\* observe one snapshot, taken after the whole queue was applied.
commitBatch(s, q) ==
  LET t == processUpdateQueue(s, q)
  IN  << [isOpen |-> t.isOpen, formType |-> t.formType, applied |-> hooksOf(q)] >>

(***************************************************************************)
(* App                                                                     *)
(***************************************************************************)

\* Faulty variant: the provider is placed inside each Route element.
ProviderPosition_perRoute(r) == << "App", "Router", "Routes", r, "ContactFormProvider" >>

\* The position of ContactFormProvider in the element tree when the Router
\* matches r: inside Router, above Routes, the same for every path.
ProviderPosition(r) == << "App", "Router", "ContactFormProvider" >>

\* The instances ContactFormProvider renders: {children}, then ContactForm.
ProviderTree(children) == children \o << "ContactForm" >>

\* The instances App renders when the Router matches r.
AppTree(r) == ProviderTree(<< "Header", Page(r), "Footer" >>)

\* How many ContactForm instances a tree holds.
Presenters(tree) == Cardinality({ i \in 1..Len(tree) : tree[i] = "ContactForm" })

(***************************************************************************)
(* State                                                                   *)
(***************************************************************************)

State == [isOpen |-> isOpen, formType |-> formType]

NoCall == [op |-> "none", arg |-> Undefined]

Init ==
  /\ isOpen = useState(FALSE, FALSE, InitialState.isOpen)
  /\ formType = useState(FALSE, "general", InitialState.formType)
  /\ props = ContactFormProps(InitialState)
  /\ route = "/"
  /\ mounted = AppTree("/")
  /\ fieldsValid = FALSE
  /\ formError = "none"
  /\ inFlight = 0
  /\ commits = << >>
  /\ lastEvent = [name |-> "mount", call |-> NoCall]
  /\ lastCall = NoCall
  /\ before = InitialState

\* One event: the handler queues the setter calls q, then the provider
\* renders again with the hooks still mounted and passes the new values down.
Dispatch(name, call, q) ==
  LET s == [isOpen |-> useState(TRUE, isOpen, InitialState.isOpen),
            formType |-> useState(TRUE, formType, InitialState.formType)]
      t == processUpdateQueue(s, q)
  IN  /\ isOpen' = t.isOpen
      /\ formType' = t.formType
      /\ props' = ContactFormProps(t)
      /\ commits' = commitBatch(s, q)
      /\ lastEvent' = [name |-> name, call |-> call]
      /\ lastCall' = IF call.op = "none" THEN lastCall ELSE call
      /\ before' = State
      /\ mounted' = AppTree(route)

(***************************************************************************)
(* Trigger sites                                                           *)
(***************************************************************************)

\* A button of the Contacts page: onClick={() => openForm('<literal>')}.
ContactsClick(b) ==
  /\ route = "/contacts"
  /\ Dispatch(b, [op |-> "openForm", arg |-> ContactsButtons[b]],
              openForm(ContactsButtons[b]))
  /\ fieldsValid' = (IF props'.formType = props.formType THEN fieldsValid ELSE FALSE)
  /\ formError' = "none"
  /\ UNCHANGED <<route, inFlight>>

\* Any other consumer of useContactForm (header, footer, another page)
\* calling openForm with an argument of its own.
ConsumerOpenForm(arg) ==
  /\ Dispatch("consumer", [op |-> "openForm", arg |-> arg], openForm(arg))
  /\ fieldsValid' = (IF props'.formType = props.formType THEN fieldsValid ELSE FALSE)
  /\ formError' = "none"
  /\ UNCHANGED <<route, inFlight>>

\* Any consumer of useContactForm calling closeForm.
ConsumerCloseForm ==
  /\ Dispatch("consumerClose", [op |-> "closeForm", arg |-> Undefined], closeForm)
  /\ UNCHANGED <<route, fieldsValid, formError, inFlight>>

(***************************************************************************)
(* Page shell                                                              *)
(***************************************************************************)

\* A route change.  The provider keeps its hooks when it stays at the same
\* position of the tree, and is mounted afresh otherwise.
Navigate(r) ==
  /\ r # route
  /\ route' = r
  /\ LET kept == ProviderPosition(r) = ProviderPosition(route)
         t == [isOpen |-> useState(kept, isOpen, InitialState.isOpen),
               formType |-> useState(kept, formType, InitialState.formType)]
     IN  /\ isOpen' = t.isOpen
         /\ formType' = t.formType
         /\ props' = ContactFormProps(t)
         /\ commits' = << [isOpen |-> t.isOpen, formType |-> t.formType, applied |-> {}] >>
         /\ fieldsValid' = (kept /\ fieldsValid)
         /\ formError' = (IF kept THEN formError ELSE "none")
  /\ mounted' = AppTree(r)
  /\ lastEvent' = [name |-> "navigate", call |-> NoCall]
  /\ before' = State
  /\ UNCHANGED <<lastCall, inFlight>>

\* A render with no queued setter call (a parent rendered again).
Rerender ==
  /\ Dispatch("render", NoCall, << >>)
  /\ UNCHANGED <<route, fieldsValid, formError, inFlight>>

(***************************************************************************)
(* ContactForm                                                             *)
(***************************************************************************)

\* The user fills in or clears the required fields of the visible form.
EditFields(v) ==
  /\ props.isOpen
  /\ fieldsValid' = v
  /\ Dispatch("edit", NoCall, << >>)
  /\ UNCHANGED <<route, formError, inFlight>>

\* Submit with a required field missing: the form stays open, flagged.
SubmitInvalid ==
  /\ props.isOpen
  /\ ~fieldsValid
  /\ formError' = "validation"
  /\ Dispatch("submitInvalid", NoCall, << >>)
  /\ UNCHANGED <<route, fieldsValid, inFlight>>

\* Submit with valid fields: the request is sent and its result awaited.
SubmitValid ==
  /\ props.isOpen
  /\ fieldsValid
  /\ inFlight < MaxInFlight
  /\ inFlight' = inFlight + 1
  /\ formError' = "none"
  /\ Dispatch("submit", NoCall, << >>)
  /\ UNCHANGED <<route, fieldsValid>>

\* The request succeeded: the form calls onClose.  The answer may arrive
\* after the form was dismissed.
SubmitSucceeded ==
  /\ inFlight > 0
  /\ inFlight' = inFlight - 1
  /\ Dispatch("submitSucceeded", [op |-> "closeForm", arg |-> Undefined], onClose)
  /\ fieldsValid' = (IF props.isOpen THEN FALSE ELSE fieldsValid)
  /\ formError' = (IF props.isOpen THEN "none" ELSE formError)
  /\ UNCHANGED route

\* The request failed: an open form stays open, keeps the entered data and
\* shows a retryable error; a dismissed form discards the answer.
SubmitFailed ==
  /\ inFlight > 0
  /\ inFlight' = inFlight - 1
  /\ formError' = (IF props.isOpen THEN "transport" ELSE formError)
  /\ Dispatch("submitFailed", NoCall, << >>)
  /\ UNCHANGED <<route, fieldsValid>>

\* The close button or the backdrop: the form calls onClose.
Dismiss ==
  /\ props.isOpen
  /\ Dispatch("dismiss", [op |-> "closeForm", arg |-> Undefined], onClose)
  /\ UNCHANGED <<route, fieldsValid, formError, inFlight>>

Next ==
  \/ \E b \in DOMAIN ContactsButtons : ContactsClick(b)
  \/ \E arg \in Args : ConsumerOpenForm(arg)
  \/ ConsumerCloseForm
  \/ \E r \in Routes : Navigate(r)
  \/ Rerender
  \/ \E v \in BOOLEAN : EditFields(v)
  \/ SubmitInvalid
  \/ SubmitValid
  \/ SubmitSucceeded
  \/ SubmitFailed
  \/ Dismiss

Spec == Init /\ [][Next]_vars

(***************************************************************************)
(* Properties                                                              *)
(***************************************************************************)

\* The intent a call of openForm asks for: the argument, 'general' when omitted.
Requested(arg) == IF arg = Undefined THEN "general" ELSE arg

OpenedBy(e) == e.call.op = "openForm"
ClosedBy(e) == e.call.op = "closeForm"

\* C1: openForm updates visibility and intent as one step.  The event is
\* followed by a single render, and no snapshot a consumer can observe has
\* isOpen set by the new call while formType is not the one that call gave.
C1_OpenIsAtomic ==
  OpenedBy(lastEvent) =>
    /\ Len(commits) = 1
    /\ \A i \in 1..Len(commits) :
         ("isOpen" \in commits[i].applied /\ commits[i].isOpen) =>
           /\ "formType" \in commits[i].applied
           /\ commits[i].formType = Requested(lastEvent.call.arg)
    /\ props = [isOpen |-> commits[Len(commits)].isOpen,
                formType |-> commits[Len(commits)].formType]

\* A closed form showing one intent was opened with another one.
C1_Witness ==
  /\ OpenedBy(lastEvent)
  /\ ~before.isOpen
  /\ before.formType = "demo"
  /\ props = [isOpen |-> TRUE, formType |-> "calculate"]

\* C2: the state after a call is the effect of that call alone on the state
\* before it.  After openForm(i) it is {isOpen: true, formType: i}, whatever
\* the state was, and stays so until the next call; after closeForm the form
\* is closed until the next call.
C2_LastCallWins ==
  /\ (lastCall.op = "openForm" /\ lastCall.arg \in Intents) =>
       State = [isOpen |-> TRUE, formType |-> lastCall.arg]
  /\ (OpenedBy(lastEvent) /\ lastEvent.call.arg \in Intents) =>
       lastCall = lastEvent.call
  /\ lastCall.op = "closeForm" => ~isOpen

\* openForm('calculate') on a form open with 'demo'.
C2_Witness ==
  /\ lastEvent.call = [op |-> "openForm", arg |-> "calculate"]
  /\ before = [isOpen |-> TRUE, formType |-> "demo"]
  /\ State = [isOpen |-> TRUE, formType |-> "calculate"]

\* C3: openForm with a value outside {general, demo, calculate} leaves
\* formType 'general' and the form open, so formType is always an intent.
C3_InvalidIntentCoerced ==
  /\ (lastCall.op = "openForm" /\ lastCall.arg \notin Intents) =>
       State = [isOpen |-> TRUE, formType |-> "general"]
  /\ formType \in Intents

\* C4: openForm() with no argument yields formType 'general' and isOpen
\* true from any prior state.
C4_DefaultIntent ==
  lastEvent.call = [op |-> "openForm", arg |-> Undefined] =>
    /\ State = [isOpen |-> TRUE, formType |-> "general"]
    /\ props = [isOpen |-> TRUE, formType |-> "general"]

\* openForm() after an earlier open left formType at 'demo' or 'calculate'.
C4_Witness ==
  /\ lastEvent.call = [op |-> "openForm", arg |-> Undefined]
  /\ before.formType \in {"demo", "calculate"}
  /\ formType = "general"

\* C5: closeForm on a closed form changes neither isOpen nor formType, and
\* applying closeForm twice gives what applying it once gives.
C5_CloseWhenClosedIsNoOp ==
  /\ (ClosedBy(lastEvent) /\ ~before.isOpen) => (State = before /\ props = before)
  /\ processUpdateQueue(processUpdateQueue(State, closeForm), closeForm)
       = processUpdateQueue(State, closeForm)

\* closeForm called on a form that was already closed with intent 'demo'.
C5_Witness ==
  /\ ClosedBy(lastEvent)
  /\ before = [isOpen |-> FALSE, formType |-> "demo"]
  /\ State = before

\* C6: one ContactForm is mounted, after the header, the page and the
\* footer, and a route change leaves {isOpen, formType} as they were.
C6_OnePresenterAcrossRoutes ==
  /\ Presenters(mounted) = 1
  /\ mounted = << "Header", Page(route), "Footer", "ContactForm" >>
  /\ lastEvent.name = "navigate" => (State = before /\ props = before)

\* A form opened with 'demo' on the Contacts page is still open on another page.
C6_Witness ==
  /\ lastEvent.name = "navigate"
  /\ route = "/blog"
  /\ props = [isOpen |-> TRUE, formType |-> "demo"]
  /\ Presenters(mounted) = 1

\* C7: {isOpen, formType} change only through openForm and closeForm.  The
\* context exposes no setter, a Contacts button only calls openForm, and an
\* event that calls neither function leaves both fields unchanged.
C7_OnlyOpenAndCloseMutate ==
  /\ ContextValue \cap {"setIsOpen", "setFormType"} = {}
  /\ lastEvent.name \in DOMAIN ContactsButtons => OpenedBy(lastEvent)
  /\ lastEvent.call.op = "none" => (State = before /\ props = before)
  /\ State # before => lastEvent.call.op \in {"openForm", "closeForm"}

\* A failed validation on an open 'calculate' form.
C7_Witness ==
  /\ lastEvent.name = "submitInvalid"
  /\ lastEvent.call.op = "none"
  /\ State = [isOpen |-> TRUE, formType |-> "calculate"]

\* C8: the Contacts button 'order a demonstration' calls openForm('demo')
\* and leaves {isOpen: true, formType: 'demo'}; a successful submission
\* calls closeForm, and isOpen is false from then to the next openForm.
\* Every other Contacts button opens the form with 'general' or 'calculate'.
C8_DemoScenario ==
  /\ lastEvent.name = "orderDemo" =>
       /\ lastEvent.call = [op |-> "openForm", arg |-> "demo"]
       /\ State = [isOpen |-> TRUE, formType |-> "demo"]
  /\ lastEvent.name \in (DOMAIN ContactsButtons) \ {"orderDemo"} =>
       /\ OpenedBy(lastEvent)
       /\ lastEvent.call.arg \in {"general", "calculate"}
       /\ State = [isOpen |-> TRUE, formType |-> lastEvent.call.arg]
  /\ lastEvent.name = "submitSucceeded" => (ClosedBy(lastEvent) /\ ~props.isOpen)
  /\ lastCall.op = "closeForm" => (~isOpen /\ ~props.isOpen)

\* The demo form opened on the Contacts page was submitted and is closed.
C8_Witness ==
  /\ lastEvent.name = "submitSucceeded"
  /\ route = "/contacts"
  /\ before = [isOpen |-> TRUE, formType |-> "demo"]
  /\ ~isOpen

\* C9: an answer to a submission that arrives while the form is closed
\* leaves it closed; isOpen goes from false to true only by openForm.
C9_LateCallbackCannotReopen ==
  /\ (lastEvent.name \in {"submitSucceeded", "submitFailed"} /\ ~before.isOpen) =>
       (~isOpen /\ ~props.isOpen)
  /\ (~before.isOpen /\ isOpen) => OpenedBy(lastEvent)

\* A successful answer arrived after the form had been dismissed.
C9_Witness ==
  /\ lastEvent.name = "submitSucceeded"
  /\ ~before.isOpen
  /\ ~isOpen

\* C10: the state starts as {isOpen: false, formType: 'general'}; closeForm
\* leaves formType as the last openForm set it, the closed form still gets
\* that value as a prop, and only an openForm call replaces it.
C10_CloseKeepsFormType ==
  /\ lastCall.op = "none" => State = [isOpen |-> FALSE, formType |-> "general"]
  /\ ClosedBy(lastEvent) =>
       /\ formType = before.formType
       /\ props = [isOpen |-> FALSE, formType |-> before.formType]
  /\ (lastCall.op = "closeForm" /\ lastCall # lastEvent.call) => formType = before.formType
  /\ formType # before.formType => OpenedBy(lastEvent)

\* The form was closed and still carries the intent 'demo'.
C10_Witness ==
  /\ ClosedBy(lastEvent)
  /\ before.isOpen
  /\ props = [isOpen |-> FALSE, formType |-> "demo"]

=============================================================================
